---- MODULE Spec2Model ----
(***************************************************************************)
(* Model of graph.py: the Colab script that loads load_balancer_data.csv,  *)
(* splits it on the '# Server Load History' line into a metrics table and  *)
(* a history table, and renders five charts.                               *)
(*                                                                         *)
(* A file is a sequence of text lines.  A CSV text (the result of          *)
(* ''.join(lines[a:b])) is the sequence of the lines joined, each line     *)
(* carrying its own newline.  A table is a record of column names, column  *)
(* dtypes and rows.                                                        *)
(***************************************************************************)
EXTENDS Integers, Sequences, FiniteSets, TLC

\* Longest file (in lines) and longest table (in rows) enumerated.
MaxLines == 5
MaxRows == 3

VARIABLES
    uploaded,      \* 'load_balancer_data.csv' in files.upload()
    fstatus,       \* what opening/reading load_balancer_data.csv does
    fileLines,     \* the lines of load_balancer_data.csv on disk
    pc,            \* position of the script
    out,           \* messages printed so far
    lines,         \* load_and_parse_data: lines
    metrics_data,  \* load_and_parse_data: metrics_data
    history_data,  \* load_and_parse_data: history_data
    metrics_df,    \* main: metrics_df
    history_df,    \* main: history_df
    propagated,    \* exception that left main uncaught ("none" if none)
    rendered,      \* charts shown so far (plt.show() calls that returned)
    bars,          \* plot_request_distribution: the bars drawn
    heat,          \* plot_load_heatmap: the matrix handed to sns.heatmap
    boxes,         \* plot_load_statistics: the boxes drawn
    dash_bars      \* create_summary_dashboard: the bars of panel 1

vars == <<uploaded, fstatus, fileLines, pc, out, lines, metrics_data,
          history_data, metrics_df, history_df, propagated, rendered,
          bars, heat, boxes, dash_bars>>

----------------------------------------------------------------------------
\* Text lines and their CSV fields

MarkerLine == "# Server Load History"
MarkerLineNote == "# Server Load History (per step)"
MetricsHeaderLine == "request_id,server_id,server_load"
HistoryHeaderLine == "server_id,time_step,load"
RowLines == {"0,0,1", "1,1,2"}

\* The lines a file of the model may hold.
FileAlphabet ==
    {MarkerLine, MarkerLineNote, MetricsHeaderLine, HistoryHeaderLine}
        \cup RowLines

\* line.startswith('# Server Load History')
StartsWithMarker(line) == line \in {MarkerLine, MarkerLineNote}

\* The comma-separated fields of a line, as read_csv tokenizes it.
CsvFields(line) ==
    CASE line = MarkerLine -> <<"# Server Load History">>
      [] line = MarkerLineNote -> <<"# Server Load History (per step)">>
      [] line = MetricsHeaderLine -> <<"request_id", "server_id", "server_load">>
      [] line = HistoryHeaderLine -> <<"server_id", "time_step", "load">>
      [] line = "0,0,1" -> <<"0", "0", "1">>
      [] line = "1,1,2" -> <<"1", "1", "2">>

\* Fields that read_csv converts to integers, and their values.
IsNumeric(tok) == tok \in {"0", "1", "2"}
ParseInt(tok) == CASE tok = "0" -> 0 [] tok = "1" -> 1 [] tok = "2" -> 2

SeqsUpTo(S, n) == UNION {[1..k -> S] : k \in 0..n}

----------------------------------------------------------------------------
\* Tables

\* A name not yet bound, Python's None, and a DataFrame.
Unbound == [kind |-> "unbound", columns |-> <<>>, dtypes |-> <<>>, rows |-> <<>>]
None == [kind |-> "None", columns |-> <<>>, dtypes |-> <<>>, rows |-> <<>>]
DataFrame(columns, dtypes, rows) ==
    [kind |-> "DataFrame", columns |-> columns, dtypes |-> dtypes, rows |-> rows]

IsNone(df) == df.kind = "None"
IsFrame(df) == df.kind = "DataFrame"

\* A CSV text is unset until the assignment that computes it.
UnsetText == [bound |-> FALSE, text |-> <<>>]
Text(t) == [bound |-> TRUE, text |-> t]

\* The fields of one data line laid on ncols columns: a short line is padded
\* with missing values, of a long line the trailing ncols fields are the data
\* (the leading ones become the index).
Cells(fields, ncols) ==
    [j \in 1..ncols |->
        IF Len(fields) >= ncols
        THEN fields[Len(fields) - ncols + j]
        ELSE IF j <= Len(fields) THEN fields[j] ELSE "nan"]

\* pd.read_csv(StringIO(text)): the outcomes.  An empty text raises
\* EmptyDataError.  The first line names the columns; a column whose cells
\* all parse as integers is int64 and holds the integers, any other is
\* object and holds the strings.  A line with more fields than the header is
\* either taken with an implicit index or rejected with ParserError,
\* depending on where it stands: both outcomes are allowed.
ReadCsvRaises == [raised |-> TRUE, df |-> None]
read_csv(text) ==
    IF text = <<>> THEN {ReadCsvRaises}
    ELSE
      LET columns == CsvFields(text[1])
          ncols == Len(columns)
          body == Tail(text)
          raw == [i \in 1..Len(body) |-> Cells(CsvFields(body[i]), ncols)]
          isInt(j) == \A i \in 1..Len(raw) : IsNumeric(raw[i][j])
          dtypes == [j \in 1..ncols |-> IF isInt(j) THEN "int64" ELSE "object"]
          rows == [i \in 1..Len(raw) |->
                     [j \in 1..ncols |->
                        IF isInt(j) THEN ParseInt(raw[i][j]) ELSE raw[i][j]]]
          long == \E i \in 1..Len(body) : Len(CsvFields(body[i])) > ncols
          table == [raised |-> FALSE, df |-> DataFrame(columns, dtypes, rows)]
      IN IF long THEN {ReadCsvRaises, table} ELSE {table}

HasCol(df, name) == \E j \in 1..Len(df.columns) : df.columns[j] = name
ColIdx(df, name) ==
    CHOOSE j \in 1..Len(df.columns) :
        /\ df.columns[j] = name
        /\ \A k \in 1..(j - 1) : df.columns[k] # name
\* df[name] as the sequence of its cells, row by row.
Col(df, name) == [i \in 1..Len(df.rows) |-> df.rows[i][ColIdx(df, name)]]
IsIntCol(df, name) == HasCol(df, name) /\ df.dtypes[ColIdx(df, name)] = "int64"

----------------------------------------------------------------------------
\* load_and_parse_data

\* FirstMarker without the loop's break: split_idx ends at the last marker.
FirstMarkerNoBreak(ls) ==
    {i \in 1..Len(ls) :
        /\ StartsWithMarker(ls[i])
        /\ \A k \in (i + 1)..Len(ls) : ~StartsWithMarker(ls[k])}

\* The index (from 1) of the first line that starts with the marker, as a
\* set: empty when split_idx stays None.
FirstMarker(ls) ==
    {i \in 1..Len(ls) :
        /\ StartsWithMarker(ls[i])
        /\ \A k \in 1..(i - 1) : ~StartsWithMarker(ls[k])}

\* lines[0:split_idx] and lines[split_idx+1:], for the marker at index i.
MetricsSlice(ls, i) == SubSeq(ls, 1, i - 1)
HistorySlice(ls, i) == SubSeq(ls, i + 1, Len(ls))

\* What the call leaves behind when the body returns normally or through
\* one of its handlers that returns (None, None).
Returns(printed, ls, mtext, htext, mdf, hdf) ==
    /\ out' = out \o printed
    /\ lines' = ls
    /\ metrics_data' = mtext
    /\ history_data' = htext
    /\ metrics_df' = mdf
    /\ history_df' = hdf
    /\ propagated' = "none"
    /\ pc' = "check"

\* ExceptionHandler ending in 'raise' instead of 'return None, None'.
ExceptionHandlerReraises(printed, err, ls, mtext, htext) ==
    /\ out' = out \o printed \o <<"ERROR parsing file", "First 10 lines">>
    /\ propagated' = err
    /\ pc' = "crashed"
    /\ UNCHANGED <<lines, metrics_data, history_data, metrics_df, history_df>>

\* The 'except Exception' handler: it prints the error, re-opens the file
\* and prints its first lines, then returns (None, None).  The re-open and
\* the re-read raise again when the first open or read did.
ExceptionHandler(printed, err, ls, mtext, htext) ==
    IF fstatus = "ok"
    THEN Returns(printed \o <<"ERROR parsing file", "First 10 lines">>,
                 ls, mtext, htext, None, None)
    ELSE /\ out' = out \o printed \o <<"ERROR parsing file", "First 10 lines">>
         /\ propagated' = err
         /\ pc' = "crashed"
         /\ UNCHANGED <<lines, metrics_data, history_data, metrics_df,
                        history_df>>

\* main, lines 220-221: the whole call load_and_parse_data(filename).
LoadAndParseData ==
    /\ pc = "load"
    /\ UNCHANGED <<uploaded, fstatus, fileLines, rendered, bars, heat, boxes,
                   dash_bars>>
    /\ LET start == <<"[1/6] Loading data">>
           read == start \o <<"Total lines read">>
           found == read \o <<"Split index found">>
       IN
       IF fstatus = "missing"
       THEN Returns(start \o <<"ERROR: File not found">>, lines,
                    metrics_data, history_data, None, None)
       ELSE IF fstatus = "unreadable"
       THEN ExceptionHandler(start, "PermissionError", lines, UnsetText,
                             UnsetText)
       ELSE IF fstatus = "undecodable"
       THEN ExceptionHandler(start, "UnicodeDecodeError", lines, UnsetText,
                             UnsetText)
       ELSE IF FirstMarker(fileLines) = {}
       THEN ExceptionHandler(read, "ValueError", fileLines, UnsetText,
                             UnsetText)
       ELSE
         LET split_idx == CHOOSE i \in FirstMarker(fileLines) : TRUE
             mtext == MetricsSlice(fileLines, split_idx)
             htext == HistorySlice(fileLines, split_idx)
         IN \E m \in read_csv(mtext) :
              IF m.raised
              THEN ExceptionHandler(found, "EmptyDataError", fileLines,
                                    Text(mtext), UnsetText)
              ELSE \E h \in read_csv(htext) :
                     IF h.raised
                     THEN ExceptionHandler(found, "ParserError", fileLines,
                                           Text(mtext), Text(htext))
                     ELSE Returns(found \o <<"Metrics columns",
                                             "History columns">>,
                                  fileLines, Text(mtext), Text(htext),
                                  m.df, h.df)

----------------------------------------------------------------------------
\* The module-level upload check and main

\* UploadCheck that stops the script when the file is not among the uploads.
UploadCheckGates ==
    /\ pc = "upload"
    /\ out' = out \o <<"Visualization Tool",
                       IF uploaded THEN "File uploaded successfully"
                                   ELSE "ERROR: not uploaded">>
    /\ pc' = IF uploaded THEN "load" ELSE "done"
    /\ UNCHANGED <<uploaded, fstatus, fileLines, lines, metrics_data,
                   history_data, metrics_df, history_df, propagated, rendered,
                   bars, heat, boxes, dash_bars>>

\* Lines 14-26: the title, files.upload() and the message about its result.
UploadCheck ==
    /\ pc = "upload"
    /\ out' = out \o <<"Visualization Tool",
                       IF uploaded THEN "File uploaded successfully"
                                   ELSE "ERROR: not uploaded">>
    /\ pc' = "load"
    /\ UNCHANGED <<uploaded, fstatus, fileLines, lines, metrics_data,
                   history_data, metrics_df, history_df, propagated, rendered,
                   bars, heat, boxes, dash_bars>>

\* MainCheck without the 'return' of line 225.
MainCheckNoReturn ==
    /\ pc = "check"
    /\ IF IsNone(metrics_df) \/ IsNone(history_df)
       THEN out' = Append(out, "Failed to load data")
       ELSE out' = out \o <<"Loaded request metrics",
                            "Loaded load history records">>
    /\ pc' = "plot1"
    /\ UNCHANGED <<uploaded, fstatus, fileLines, lines, metrics_data,
                   history_data, metrics_df, history_df, propagated, rendered,
                   bars, heat, boxes, dash_bars>>

\* main, lines 223-228.
MainCheck ==
    /\ pc = "check"
    /\ IF IsNone(metrics_df) \/ IsNone(history_df)
       THEN /\ out' = Append(out, "Failed to load data")
            /\ pc' = "done"
       ELSE /\ out' = out \o <<"Loaded request metrics",
                               "Loaded load history records">>
            /\ pc' = "plot1"
    /\ UNCHANGED <<uploaded, fstatus, fileLines, lines, metrics_data,
                   history_data, metrics_df, history_df, propagated, rendered,
                   bars, heat, boxes, dash_bars>>

----------------------------------------------------------------------------
\* Aggregations

Min(S) == CHOOSE x \in S : \A y \in S : x <= y

\* sorted(S) of a set of integers.
RECURSIVE sorted(_)
sorted(S) == IF S = {} THEN <<>> ELSE <<Min(S)>> \o sorted(S \ {Min(S)})

\* Series.unique(): the distinct cells.
unique(col) == {col[i] : i \in DOMAIN col}

\* Series.value_counts(): for each distinct cell the number of its rows.
value_counts(col) ==
    [v \in unique(col) |-> Cardinality({i \in DOMAIN col : col[i] = v})]

\* sort_index with ascending=False.
sort_index_descending(counts) ==
    LET idx == sorted(DOMAIN counts)
        n == Len(idx)
    IN [k \in 1..n |-> [x |-> idx[n + 1 - k], height |-> counts[idx[n + 1 - k]]]]

\* .sort_index() of a value_counts() result, as (index, value) pairs.
sort_index(counts) ==
    LET idx == sorted(DOMAIN counts)
    IN [k \in 1..Len(idx) |-> [x |-> idx[k], height |-> counts[idx[k]]]]

\* df[df[name] == v][wanted].values: the wanted cells of the rows whose
\* name cell is v, in row order.
RECURSIVE Select(_, _, _, _)
Select(df, name, v, wanted) ==
    IF df.rows = <<>> THEN <<>>
    ELSE LET n == Len(df.rows)
             init == Select([df EXCEPT !.rows = SubSeq(df.rows, 1, n - 1)],
                            name, v, wanted)
         IN IF df.rows[n][ColIdx(df, name)] = v
            THEN Append(init, df.rows[n][ColIdx(df, wanted)])
            ELSE init

\* Lines 79-81 and 174-176: one bar per entry of
\* metrics_df['server_id'].value_counts().sort_index().
RequestBars(df) == sort_index(value_counts(Col(df, "server_id")))

\* DataFrame.pivot raises ValueError when two rows share (index, columns).
PivotDuplicates(df) ==
    \E i, j \in 1..Len(df.rows) :
        /\ i < j
        /\ Col(df, "server_id")[i] = Col(df, "server_id")[j]
        /\ Col(df, "time_step")[i] = Col(df, "time_step")[j]

\* Lines 126-127: history_df.pivot(index='server_id', columns='time_step',
\* values='load').fillna(0).  A cell without a row is NaN after the pivot
\* and 0 after fillna.
fillna(cellRows, df) ==
    IF cellRows = {} THEN 0
    ELSE Col(df, "load")[CHOOSE i \in cellRows : TRUE]

\* Pivot with index and columns exchanged.
PivotTransposed(df) ==
    LET index == sorted(unique(Col(df, "time_step")))
        columns == sorted(unique(Col(df, "server_id")))
        at(t, s) == {i \in 1..Len(df.rows) :
                        /\ Col(df, "server_id")[i] = s
                        /\ Col(df, "time_step")[i] = t}
    IN [index |-> index,
        columns |-> columns,
        cell |-> [r \in 1..Len(index) |->
                    [c \in 1..Len(columns) |->
                        fillna(at(index[r], columns[c]), df)]]]

Pivot(df) ==
    LET index == sorted(unique(Col(df, "server_id")))
        columns == sorted(unique(Col(df, "time_step")))
        at(s, t) == {i \in 1..Len(df.rows) :
                        /\ Col(df, "server_id")[i] = s
                        /\ Col(df, "time_step")[i] = t}
    IN [index |-> index,
        columns |-> columns,
        cell |-> [r \in 1..Len(index) |->
                    [c \in 1..Len(columns) |->
                        fillna(at(index[r], columns[c]), df)]]]

\* Line 149: the tick label of the box at position i (from 0), f'S{i}'.
BoxLabel(i) == <<"S", i>>

\* Lines 146-149: one box per sorted distinct server_id, holding that
\* server's server_load cells; the labels are S0 .. S(n-1) by position.
LoadBoxes(df) ==
    LET sids == sorted(unique(Col(df, "server_id")))
    IN [k \in 1..Len(sids) |->
          [label |-> BoxLabel(k - 1),
           values |-> Select(df, "server_id", sids[k], "server_load")]]

----------------------------------------------------------------------------
\* The five charts

\* What a figure holds when its data is not integer-typed: not modelled.
\* Of data that is, the figure is modelled also when it is empty.
Opaque == "figure over non-integer data"

\* Whether the plotting library completes (TRUE) or raises (FALSE).  On
\* integer data (for the heatmap and the boxplot: non-empty too) it
\* completes; on anything else its outcome depends on the library and both
\* are allowed.
LibraryOutcomes(wellTyped) == IF wellTyped THEN {TRUE} ELSE BOOLEAN

\* Raise caught by a handler around the charts that goes on to the banner.
RaiseSwallowed(printed, err) ==
    /\ out' = out \o printed
    /\ pc' = "banner"
    /\ UNCHANGED <<propagated, rendered, bars, heat, boxes, dash_bars>>

\* An exception raised in a chart function leaves main uncaught.
Raise(printed, err) ==
    /\ out' = out \o printed
    /\ propagated' = err
    /\ pc' = "crashed"
    /\ UNCHANGED <<rendered, bars, heat, boxes, dash_bars>>

\* Shown by a chart function that main calls twice in a row.
ShownTwice(printed, chart, next) ==
    /\ out' = out \o printed \o printed
    /\ rendered' = rendered \o <<chart, chart>>
    /\ pc' = next
    /\ UNCHANGED propagated

\* plt.show() returned: the chart is on screen and main goes on.
Shown(printed, chart, next) ==
    /\ out' = out \o printed
    /\ rendered' = Append(rendered, chart)
    /\ pc' = next
    /\ UNCHANGED propagated

Inputs == <<uploaded, fstatus, fileLines, lines, metrics_data, history_data,
            metrics_df, history_df>>

\* main, lines 231-232, and plot_request_distribution.
PlotRequestDistribution ==
    /\ pc = "plot1"
    /\ UNCHANGED Inputs
    /\ LET said == <<"[2/6] Creating request distribution plot">>
           typed == IsIntCol(metrics_df, "server_id")
       IN IF ~HasCol(metrics_df, "server_id")
          THEN Raise(said, "KeyError")
          ELSE \E ok \in LibraryOutcomes(typed) :
                 IF ok
                 THEN /\ Shown(said \o <<"Request Distribution Plot Created">>,
                               "request_distribution", "plot2")
                      /\ bars' = IF typed THEN RequestBars(metrics_df)
                                 ELSE Opaque
                      /\ UNCHANGED <<heat, boxes, dash_bars>>
                 ELSE Raise(said, "LibraryError")

\* The columns the timeline loop reads: server_id always, time_step and
\* load once per server, so only when there is a row.
TimelineColumnsMissing(df) ==
    \/ ~HasCol(df, "server_id")
    \/ /\ df.rows # <<>>
       /\ ~(HasCol(df, "time_step") /\ HasCol(df, "load"))

TimelineTyped(df) ==
    /\ IsIntCol(df, "server_id")
    /\ df.rows # <<>> => IsIntCol(df, "time_step") /\ IsIntCol(df, "load")

\* main, lines 234-235, and plot_server_loads_over_time.
PlotServerLoadsOverTime ==
    /\ pc = "plot2"
    /\ UNCHANGED Inputs
    /\ LET said == <<"[3/6] Creating server load timeline">>
       IN IF TimelineColumnsMissing(history_df)
          THEN Raise(said, "KeyError")
          ELSE \E ok \in LibraryOutcomes(TimelineTyped(history_df)) :
                 IF ok
                 THEN /\ Shown(said \o <<"Server Loads Timeline Created">>,
                               "server_loads_over_time", "plot3")
                      /\ UNCHANGED <<bars, heat, boxes, dash_bars>>
                 ELSE Raise(said, "LibraryError")

HeatmapInts(df) ==
    /\ IsIntCol(df, "server_id")
    /\ IsIntCol(df, "time_step")
    /\ IsIntCol(df, "load")

\* sns.heatmap is sure to complete on a non-empty matrix of numbers.
HeatmapTyped(df) == df.rows # <<>> /\ HeatmapInts(df)

\* main, lines 237-238, and plot_load_heatmap.
PlotLoadHeatmap ==
    /\ pc = "plot3"
    /\ UNCHANGED Inputs
    /\ LET said == <<"[4/6] Creating load heatmap">>
           df == history_df
           typed == HeatmapTyped(df)
       IN IF ~(HasCol(df, "server_id") /\ HasCol(df, "time_step")
                 /\ HasCol(df, "load"))
          THEN Raise(said, "KeyError")
          ELSE IF PivotDuplicates(df)
          THEN Raise(said, "ValueError")
          ELSE \E ok \in LibraryOutcomes(typed) :
                 IF ok
                 THEN /\ Shown(said \o <<"Load Heatmap Created">>,
                               "load_heatmap", "plot4")
                      /\ heat' = IF HeatmapInts(df) THEN Pivot(df)
                                 ELSE Opaque
                      /\ UNCHANGED <<bars, boxes, dash_bars>>
                 ELSE Raise(said, "LibraryError")

\* The columns plot_load_statistics reads: server_id always, server_load
\* once per server.
StatisticsColumnsMissing(df) ==
    \/ ~HasCol(df, "server_id")
    \/ /\ df.rows # <<>>
       /\ ~HasCol(df, "server_load")

\* With no row there is no server and server_load is never read.
StatisticsInts(df) ==
    /\ IsIntCol(df, "server_id")
    /\ df.rows # <<>> => IsIntCol(df, "server_load")

\* plt.boxplot is sure to complete on at least one box of numbers.
StatisticsTyped(df) == df.rows # <<>> /\ StatisticsInts(df)

\* main, lines 240-241, and plot_load_statistics.
PlotLoadStatistics ==
    /\ pc = "plot4"
    /\ UNCHANGED Inputs
    /\ LET said == <<"[5/6] Creating load statistics plot">>
           typed == StatisticsTyped(metrics_df)
       IN IF StatisticsColumnsMissing(metrics_df)
          THEN Raise(said, "KeyError")
          ELSE \E ok \in LibraryOutcomes(typed) :
                 IF ok
                 THEN /\ Shown(said \o <<"Load Statistics Plot Created">>,
                               "load_statistics", "plot5")
                      /\ boxes' = IF StatisticsInts(metrics_df)
                                  THEN LoadBoxes(metrics_df)
                                  ELSE Opaque
                      /\ UNCHANGED <<bars, heat, dash_bars>>
                 ELSE Raise(said, "LibraryError")

DashboardColumnsMissing(m, h) ==
    \/ ~HasCol(m, "server_id")
    \/ ~HasCol(m, "server_load")
    \/ TimelineColumnsMissing(h)

DashboardTyped(m, h) ==
    /\ IsIntCol(m, "server_id")
    /\ IsIntCol(m, "server_load")
    /\ TimelineTyped(h)

\* main, lines 243-244, and create_summary_dashboard.
CreateSummaryDashboard ==
    /\ pc = "plot5"
    /\ UNCHANGED Inputs
    /\ LET said == <<"[6/6] Creating summary dashboard">>
           typed == DashboardTyped(metrics_df, history_df)
       IN IF DashboardColumnsMissing(metrics_df, history_df)
          THEN Raise(said, "KeyError")
          ELSE \E ok \in LibraryOutcomes(typed) :
                 IF ok
                 THEN /\ Shown(said \o <<"Summary Dashboard Created">>,
                               "summary_dashboard", "banner")
                      /\ dash_bars' = IF typed THEN RequestBars(metrics_df)
                                      ELSE Opaque
                      /\ UNCHANGED <<bars, heat, boxes>>
                 ELSE Raise(said, "LibraryError")

\* main, lines 246-250.
Banner ==
    /\ pc = "banner"
    /\ out' = Append(out, "All visualizations generated successfully!")
    /\ pc' = "done"
    /\ UNCHANGED <<uploaded, fstatus, fileLines, lines, metrics_data,
                   history_data, metrics_df, history_df, propagated, rendered,
                   bars, heat, boxes, dash_bars>>

----------------------------------------------------------------------------
\* The script, from an arbitrary file on disk

\* files.upload() writes each uploaded file to the working directory, so an
\* uploaded load_balancer_data.csv exists and can be opened; a file that is
\* missing or cannot be opened or decoded has no lines the script ever sees.
Init ==
    /\ uploaded \in BOOLEAN
    /\ fstatus \in IF uploaded THEN {"ok", "undecodable"}
                   ELSE {"ok", "missing", "unreadable", "undecodable"}
    /\ fileLines \in IF fstatus = "ok" THEN SeqsUpTo(FileAlphabet, MaxLines)
                     ELSE {<<>>}
    /\ pc = "upload"
    /\ out = <<>>
    /\ lines = <<>>
    /\ metrics_data = UnsetText
    /\ history_data = UnsetText
    /\ metrics_df = Unbound
    /\ history_df = Unbound
    /\ propagated = "none"
    /\ rendered = <<>>
    /\ bars = <<>>
    /\ heat = <<>>
    /\ boxes = <<>>
    /\ dash_bars = <<>>

Charts ==
    \/ PlotRequestDistribution
    \/ PlotServerLoadsOverTime
    \/ PlotLoadHeatmap
    \/ PlotLoadStatistics
    \/ CreateSummaryDashboard
    \/ Banner

Next ==
    \/ UploadCheck
    \/ LoadAndParseData
    \/ MainCheck
    \/ Charts

Spec == Init /\ [][Next]_vars

----------------------------------------------------------------------------
\* The charts alone, on tables of integers as read_csv returns them for a
\* well-formed file.  Either the metrics table or the history table ranges
\* over every table of at most MaxRows rows.  The file and the locals of
\* load_and_parse_data play no part here.

ServerIds == {0, 1, 2}
TimeSteps == {0, 1}
Loads == {0, 1, 2}

IntTable(line, rows) ==
    DataFrame(CsvFields(line), [j \in 1..Len(CsvFields(line)) |-> "int64"], rows)

\* request_id, server_id, server_load
MetricsRows == {<<0, s, l>> : s \in ServerIds, l \in Loads}
\* server_id, time_step, load
HistoryRows == {<<s, t, l>> : s \in ServerIds, t \in TimeSteps, l \in Loads}

SampleMetrics == IntTable(MetricsHeaderLine, << <<0, 0, 1>>, <<0, 1, 2>> >>)
SampleHistory == IntTable(HistoryHeaderLine, << <<0, 0, 1>>, <<1, 1, 2>> >>)

InitCharts ==
    /\ uploaded = TRUE
    /\ fstatus = "ok"
    /\ fileLines = <<>>
    /\ pc = "plot1"
    /\ out = <<>>
    /\ lines = <<>>
    /\ metrics_data = UnsetText
    /\ history_data = UnsetText
    /\ \/ /\ metrics_df \in {IntTable(MetricsHeaderLine, r) :
                                r \in SeqsUpTo(MetricsRows, MaxRows)}
          /\ history_df = SampleHistory
       \/ /\ metrics_df = SampleMetrics
          /\ history_df \in {IntTable(HistoryHeaderLine, r) :
                                r \in SeqsUpTo(HistoryRows, MaxRows)}
    /\ propagated = "none"
    /\ rendered = <<>>
    /\ bars = <<>>
    /\ heat = <<>>
    /\ boxes = <<>>
    /\ dash_bars = <<>>

ChartSpec == InitCharts /\ [][Charts]_vars

----------------------------------------------------------------------------
\* Properties

InSeq(x, s) == \E i \in DOMAIN s : s[i] = x

ChartOrder == <<"request_distribution", "server_loads_over_time",
                "load_heatmap", "load_statistics", "summary_dashboard">>

BannerText == "All visualizations generated successfully!"

AfterLoad == pc \notin {"upload", "load"}

HasMarker == \E i \in DOMAIN fileLines : StartsWithMarker(fileLines[i])

\* C1: for a file with a marker line the split is at the FIRST such line:
\* metrics_data is the lines before it, history_data the lines after it, the
\* marker line is in neither, and the three together are the file in order
\* (so a later marker line is in history_data).  metrics_data is computed
\* for every such file, history_data once read_csv has returned the metrics
\* table.
C1_SplitAtFirstMarker ==
    /\ (AfterLoad /\ fstatus = "ok" /\ HasMarker) => metrics_data.bound
    /\ metrics_data.bound =>
         LET m == metrics_data.text
             p == Len(m) + 1
         IN /\ p <= Len(fileLines)
            /\ StartsWithMarker(fileLines[p])
            /\ \A k \in 1..Len(m) :
                  m[k] = fileLines[k] /\ ~StartsWithMarker(m[k])
            /\ history_data.bound <=> m # <<>>
            /\ history_data.bound =>
                 m \o <<fileLines[p]>> \o history_data.text = fileLines
    /\ history_data.bound => metrics_data.bound

C1_Witness ==
    /\ pc = "check"
    /\ history_data.bound
    /\ Len(metrics_data.text) = 2
    /\ \E i \in DOMAIN history_data.text :
          StartsWithMarker(history_data.text[i])

\* C2: a readable file without a marker line: the parse error is reported,
\* the call returns (None, None), main prints the failure message and
\* returns, and no chart is rendered.
C2_NoMarkerReported ==
    (AfterLoad /\ fstatus = "ok" /\ ~HasMarker) =>
        /\ pc \in {"check", "done"}
        /\ propagated = "none"
        /\ IsNone(metrics_df) /\ IsNone(history_df)
        /\ InSeq("ERROR parsing file", out)
        /\ rendered = <<>>
        /\ ~InSeq(BannerText, out)
        /\ pc = "done" => out[Len(out)] = "Failed to load data"

C2_Witness ==
    /\ pc = "done"
    /\ fstatus = "ok"
    /\ fileLines # <<>>
    /\ ~HasMarker
    /\ out[Len(out)] = "Failed to load data"

\* C3: a missing file: the file-not-found error is reported, the call
\* returns (None, None) without raising, main returns, no chart is rendered
\* and the banner is not printed.
C3_MissingFileReported ==
    (AfterLoad /\ fstatus = "missing") =>
        /\ pc \in {"check", "done"}
        /\ propagated = "none"
        /\ IsNone(metrics_df) /\ IsNone(history_df)
        /\ InSeq("ERROR: File not found", out)
        /\ ~InSeq("ERROR parsing file", out)
        /\ rendered = <<>>
        /\ ~InSeq(BannerText, out)

C3_Witness ==
    /\ pc = "done"
    /\ fstatus = "missing"
    /\ out[Len(out)] = "Failed to load data"

\* C4: load_and_parse_data never raises to its caller: once the call is
\* over it has returned two tables or (None, None), whatever the file.
C4_LoadNeverRaises ==
    AfterLoad =>
        \/ IsFrame(metrics_df) /\ IsFrame(history_df)
        \/ IsNone(metrics_df) /\ IsNone(history_df)

\* C5: no chart before the load has returned two tables; the charts are
\* rendered at most once each, in the fixed order, each after the one
\* before it.
C5_ChartsInOrder ==
    /\ Len(rendered) <= Len(ChartOrder)
    /\ rendered = SubSeq(ChartOrder, 1, Len(rendered))
    /\ rendered # <<>> => IsFrame(metrics_df) /\ IsFrame(history_df)
    /\ pc \in {"upload", "load", "check"} => rendered = <<>>
    /\ pc = "plot1" => rendered = <<>>
    /\ pc = "plot2" => Len(rendered) = 1
    /\ pc = "plot3" => Len(rendered) = 2
    /\ pc = "plot4" => Len(rendered) = 3
    /\ pc = "plot5" => Len(rendered) = 4

C5_Witness ==
    /\ pc = "done"
    /\ rendered = ChartOrder

\* C6: the banner is printed only when all five charts were rendered; when
\* the load fails or a chart raises, no later chart is rendered and no
\* banner is printed.  A history table with two rows for one (server_id,
\* time_step) never gets past the heatmap.
C6_BannerOnlyAfterAllCharts ==
    /\ InSeq(BannerText, out) => rendered = ChartOrder /\ propagated = "none"
    /\ propagated # "none" =>
         /\ pc = "crashed"
         /\ Len(rendered) < Len(ChartOrder)
         /\ ~InSeq(BannerText, out)
    /\ (IsNone(metrics_df) \/ IsNone(history_df)) => rendered = <<>>
    /\ (/\ IsFrame(history_df)
        /\ HasCol(history_df, "server_id")
        /\ HasCol(history_df, "time_step")
        /\ PivotDuplicates(history_df)) =>
            /\ Len(rendered) <= 2
            /\ ~InSeq(BannerText, out)

C6_Witness ==
    /\ pc = "crashed"
    /\ propagated = "ValueError"
    /\ PivotDuplicates(history_df)
    /\ rendered = SubSeq(ChartOrder, 1, 2)
    /\ ~InSeq(BannerText, out)

RECURSIVE SumHeights(_)
SumHeights(bs) ==
    IF bs = <<>> THEN 0 ELSE bs[1].height + SumHeights(Tail(bs))

\* The bars bs are those of the metrics table: one per distinct server_id,
\* ascending, each as high as the number of rows of its server.
BarsOf(bs, df) ==
    LET ids == {df.rows[i][2] : i \in 1..Len(df.rows)}
    IN /\ Len(bs) = Cardinality(ids)
       /\ {bs[k].x : k \in 1..Len(bs)} = ids
       /\ \A k \in 1..(Len(bs) - 1) : bs[k].x < bs[k + 1].x
       /\ \A k \in 1..Len(bs) :
             bs[k].height =
                Cardinality({i \in 1..Len(df.rows) : df.rows[i][2] = bs[k].x})
       /\ \A k \in 1..Len(bs) : bs[k].height >= 1
       /\ SumHeights(bs) = Len(df.rows)

\* C7: the request-distribution chart and the dashboard's first panel draw
\* exactly one bar per distinct server_id of the metrics table, in ascending
\* server_id order, as high as the number of rows of that server; the
\* heights sum to the number of rows, and a server without a row has no bar.
C7_BarsCountRequests ==
    /\ InSeq("request_distribution", rendered) => BarsOf(bars, metrics_df)
    /\ InSeq("summary_dashboard", rendered) => BarsOf(dash_bars, metrics_df)

C7_Witness ==
    /\ InSeq("summary_dashboard", rendered)
    /\ dash_bars = bars
    /\ bars = << [x |-> 0, height |-> 2], [x |-> 2, height |-> 1] >>

\* C8: for a history table with at most one row per (server_id, time_step)
\* the heatmap matrix has one row per distinct server_id and one column per
\* distinct time_step; cell (s, t) is the load of the row for (s, t), and 0
\* when there is no such row.
C8_HeatmapCells ==
    InSeq("load_heatmap", rendered) =>
        LET df == history_df
            n == Len(df.rows)
            sids == {df.rows[i][1] : i \in 1..n}
            steps == {df.rows[i][2] : i \in 1..n}
        IN /\ Len(heat.index) = Cardinality(sids)
           /\ {heat.index[r] : r \in 1..Len(heat.index)} = sids
           /\ Len(heat.columns) = Cardinality(steps)
           /\ {heat.columns[c] : c \in 1..Len(heat.columns)} = steps
           /\ \A r \in 1..Len(heat.index), c \in 1..Len(heat.columns) :
                LET hit == {i \in 1..n :
                              /\ df.rows[i][1] = heat.index[r]
                              /\ df.rows[i][2] = heat.columns[c]}
                IN /\ hit # {} => \A i \in hit : heat.cell[r][c] = df.rows[i][3]
                   /\ hit = {} => heat.cell[r][c] = 0

C8_Witness ==
    /\ InSeq("load_heatmap", rendered)
    /\ history_df.rows = << <<0, 0, 2>>, <<2, 1, 1>> >>
    /\ heat.index = <<0, 2>>
    /\ heat.columns = <<0, 1>>
    /\ heat.cell = << <<2, 0>>, <<0, 1>> >>

\* C9: the box under the tick label S<i> shows exactly the server_load
\* values of the metrics rows whose server_id is i.
C9_BoxLabelledWithItsServer ==
    InSeq("load_statistics", rendered) =>
        \A k \in 1..Len(boxes) :
            \A i \in ServerIds \cup 0..Len(boxes) :
                boxes[k].label = BoxLabel(i) =>
                    boxes[k].values =
                        Select(metrics_df, "server_id", i, "server_load")

\* C10: the upload check gates nothing: the script goes on to main and the
\* load whether or not the file was among the uploads, and a file on disk
\* that opens and parses is loaded and charted all the same.
C10_UploadGatesNothing ==
    /\ pc \in {"check", "done", "crashed"} => InSeq("[1/6] Loading data", out)
    /\ AfterLoad =>
         \/ InSeq("File uploaded successfully", out) /\ uploaded
         \/ InSeq("ERROR: not uploaded", out) /\ ~uploaded
    /\ (/\ AfterLoad
        /\ fstatus = "ok"
        /\ HasMarker
        /\ metrics_data.bound
        /\ history_data.bound
        /\ \A m \in read_csv(metrics_data.text) : ~m.raised
        /\ \A h \in read_csv(history_data.text) : ~h.raised) =>
            IsFrame(metrics_df) /\ IsFrame(history_df)
    /\ rendered # <<>> => fstatus = "ok"

C10_Witness ==
    /\ ~uploaded
    /\ InSeq("ERROR: not uploaded", out)
    /\ rendered = ChartOrder
    /\ pc = "done"

====
